---- MODULE Spec2Model ----
(***************************************************************************)
(* Connection lifecycle of the rniverse/connectors facades.                *)
(*                                                                         *)
(* Part 1 models one RedisConnector, SQLConnector or MongoDBConnector     *)
(* instance (the three share the init_promise / client pattern; which one  *)
(* is modelled is fixed by config.kind).                                   *)
(* Part 2 models one RedpandaConnector instance with its lazily created    *)
(* admin / producer / consumer sub-clients.                                *)
(*                                                                         *)
(* Every await of the TypeScript source is a step boundary: the code up to *)
(* the first await runs inside the action of the call, each continuation   *)
(* is an action of its own.  Driver calls settle with an outcome chosen by *)
(* the environment.  The variable `last` describes the step just taken:    *)
(* the operation, what it returned and the driver calls it issued.         *)
(***************************************************************************)
EXTENDS Integers, Sequences, FiniteSets, Bags, TLC

\* ------------------------------------------------------------------ bounds
MaxAttempts == 3    \* underlying connect attempts per behaviour
MaxWaiting  == 2    \* connect() calls whose outcome is not yet delivered
MaxClosing  == 2    \* MongoDB close() calls awaiting closeMongoDB
MaxCount    == 2    \* delivered outcomes are counted up to this many
MaxCalls    == 1    \* ping / CRUD calls awaiting their driver call

Kinds == {"redis", "sql", "mongo"}
Instances == {"A", "B"}
Roles == {"admin", "producer", "consumer"}

\* ------------------------------------------------------------- part 1 state
VARIABLES
    config,        \* [kind, database]: which facade; whether a db name is configured
    client,        \* this.client: 0 = null, else id of the attempt that created it
    db,            \* MongoDBConnector.db: 0 = null, else id of the attempt
    init_promise,  \* this.init_promise: 0 = null, else id of the memoized attempt
    attempts,      \* the promises returned by __connect(), in creation order
    closing,       \* closing[c]: close() calls awaiting closeMongoDB(client c)
    open,          \* driver clients created and not yet closed
    established,   \* attempt that resolved since the last completed close, or 0
    calls,         \* calls[op]: ping / CRUD calls suspended at their driver call
    last           \* the step just taken: [op, arg, result, io]

\* ------------------------------------------------------------- part 2 state
VARIABLES
    handle,             \* adminClient / producer / consumer: 0 = null, else the
                        \* index of the sub-client in subs[role]
    promise,            \* admin_promise / producer_promise / consumer_promise:
                        \* 0 = null, else the sub-client whose connect it awaits
    consumer_running,   \* this.consumer_running
    consumer_group_id,  \* this.consumer_group_id: "none" = null, else a group
    subs,               \* subs[role]: the sub-clients kafka.<role>() was asked for
    inflight,           \* bag of the calls that are suspended at an await
    rp_connected        \* connect() has resolved on this instance

\* ------------------------------------------------------------- part 3 state
VARIABLES
    inst,               \* inst[i]: the fields of MongoDBConnector instance i
    created             \* created[k]: the instance whose connect() made client k

\* the fields of the parts; `last` belongs to all
lcState == <<config, client, db, init_promise, attempts, closing, open, established,
             calls>>
rpState == <<handle, promise, consumer_running, consumer_group_id, subs,
             inflight, rp_connected>>

twoState == <<inst, created>>

vars == <<lcState, rpState, twoState, last>>

\* the fields of a MongoDBConnector after its constructor, with the calls it
\* has suspended: pending __connect attempts, close() calls, CRUD calls
NewInstance ==
    [client |-> 0, db |-> 0, init_promise |-> 0,
     pending |-> {}, closing |-> {}, calls |-> 0]

\* ------------------------------------------------------------------ part 1

IsMongo == config.kind = "mongo"

Ids == 1..MaxAttempts

\* ids of the attempts that have not settled
Pending == {a \in 1..Len(attempts) : attempts[a].state = "pending"}

\* connect() calls whose outcome is not yet delivered
Waiting == {a \in 1..Len(attempts) : attempts[a].waiting > 0}

RECURSIVE SumTo(_, _)
SumTo(f, n) == IF n = 0 THEN 0 ELSE f[n] + SumTo(f, n - 1)

NumWaiting == SumTo([a \in Ids |-> IF a <= Len(attempts) THEN attempts[a].waiting ELSE 0],
                    MaxAttempts)
NumClosing == SumTo(closing, MaxAttempts)

\* the operations that await one driver call inside try / catch: ping on the
\* three facades, the CRUD and collection operations of MongoDBConnector
LcOps == {"ping", "crud"}
NumCalls == calls["ping"] + calls["crud"]

Step(op, arg, result, io) == [op |-> op, arg |-> arg, result |-> result, io |-> io]

\* a continuation that returns to no caller; io: the driver calls it issues
Internal(io) == Step("internal", "none", "pending", io)

\* the promise object __connect() returns
NewAttempt(state, stage) ==
    [state |-> state, stage |-> stage, waiting |-> 1,
     got |-> [resolved |-> 0, rejected |-> 0]]

\* one more delivery of outcome o, counted up to MaxCount
Count(got, o) == [got EXCEPT ![o] = IF @ < MaxCount THEN @ + 1 ELSE @]

\* `this.init_promise = null` in the catch block of __connect
SlotAfterFailureKept(slot) == slot
SlotAfterFailure(slot) == 0

\* `this.client = client` is placed after the awaited probe: the field is
\* written only by the continuation of a probe that succeeded
ClientBeforeProbe(a, ok) == a
ClientAfterProbe(a, ok) == IF ok THEN a ELSE client

LcInit ==
    /\ handle = [r \in Roles |-> 0] /\ promise = [r \in Roles |-> 0]
    /\ consumer_running = FALSE /\ consumer_group_id = "none"
    /\ subs = [r \in Roles |-> <<>>]
    /\ inflight = EmptyBag /\ rp_connected = FALSE
    /\ config \in {[kind |-> k, database |-> d] : k \in Kinds, d \in BOOLEAN}
    /\ (config.kind # "mongo" => config.database)
    /\ client = 0
    /\ db = 0
    /\ init_promise = 0
    /\ attempts = <<>>
    /\ closing = [c \in Ids |-> 0]
    /\ open = {}
    /\ established = 0
    /\ calls = [op \in LcOps |-> 0]
    /\ inst = [i \in Instances |-> NewInstance] /\ created = <<>>
    /\ last = Step("new", "none", "returned", {})

\* connect() while an attempt is memoized: `return this.init_promise`
ConnectJoin ==
    /\ init_promise # 0
    /\ NumWaiting < MaxWaiting
    /\ attempts' = [attempts EXCEPT ![init_promise].waiting = @ + 1]
    /\ last' = Step("connect", "join", init_promise, {})
    /\ UNCHANGED <<config, client, db, init_promise, closing, open, established>>
    /\ UNCHANGED <<calls, rpState, twoState>>

\* connect() with an empty slot on Redis / SQL: __connect() runs up to its
\* first await inside the call.  f is the outcome of initRedis / initORM.
\* When the factory throws, the catch block runs before __connect() returns:
\* it nulls the slot, and then connect() assigns the rejected promise to it.
ConnectStart(f) ==
    /\ ~IsMongo
    /\ init_promise = 0
    /\ NumWaiting < MaxWaiting
    /\ Len(attempts) < MaxAttempts
    /\ LET a == Len(attempts) + 1 IN
       /\ init_promise' = a
       /\ IF f = "throw"
            THEN /\ attempts' = Append(attempts, NewAttempt("rejected", "factory"))
                 /\ last' = Step("connect", "start", a, {"create"})
                 /\ UNCHANGED open
            ELSE /\ attempts' = Append(attempts, NewAttempt("pending", "probe"))
                 /\ open' = open \cup {a}
                 /\ last' = Step("connect", "start", a, {"create", "probe"})
    /\ UNCHANGED <<config, client, db, closing, established>>
    /\ UNCHANGED <<calls, rpState, twoState>>

\* the awaited PING / SELECT 1 of attempt a returns
ProbeSettle(a, ok) ==
    /\ ~IsMongo
    /\ a \in Pending
    /\ attempts[a].stage = "probe"
    /\ client' = ClientAfterProbe(a, ok)
    /\ IF ok
         THEN /\ attempts' = [attempts EXCEPT ![a].state = "resolved"]
              /\ established' = a
              /\ UNCHANGED init_promise
         ELSE /\ attempts' = [attempts EXCEPT ![a].state = "rejected"]
              /\ init_promise' = SlotAfterFailure(init_promise)
              /\ UNCHANGED established
    /\ last' = Step("__connect", a, IF ok THEN "resolved" ELSE "rejected", {})
    /\ UNCHANGED <<config, db, closing, open>>
    /\ UNCHANGED <<calls, rpState, twoState>>

\* connect() with an empty slot on MongoDB: initMongoDB is an async function,
\* so even a throwing `new MongoClient` only rejects the promise __connect()
\* awaits; the catch block runs in a later step, after the slot was assigned.
MongoConnectStart(f) ==
    /\ IsMongo
    /\ init_promise = 0
    /\ NumWaiting < MaxWaiting
    /\ Len(attempts) < MaxAttempts
    /\ LET a == Len(attempts) + 1 IN
       /\ init_promise' = a
       /\ IF f = "throw"
            THEN /\ attempts' = Append(attempts, NewAttempt("pending", "factory"))
                 /\ last' = Step("connect", "start", a, {"create"})
                 /\ UNCHANGED open
            ELSE /\ attempts' = Append(attempts, NewAttempt("pending", "connect"))
                 /\ open' = open \cup {a}
                 /\ last' = Step("connect", "start", a, {"create", "connect"})
    /\ UNCHANGED <<config, client, db, closing, established>>
    /\ UNCHANGED <<calls, rpState, twoState>>

\* the catch block of MongoDBConnector.__connect
MongoReject(a, stage) ==
    /\ attempts' = [attempts EXCEPT ![a].state = "rejected", ![a].stage = stage]
    /\ init_promise' = SlotAfterFailure(init_promise)
    /\ last' = Step("__connect", a, "rejected", {})
    /\ UNCHANGED <<client, db, established>>
    /\ UNCHANGED <<calls, rpState, twoState>>

\* a step of initMongoDB for attempt a: the awaited driver call returns with
\* outcome ok, and the code runs to its next await or to the end of __connect
MongoStep(a, ok) ==
    /\ IsMongo
    /\ a \in Pending
    /\ CASE attempts[a].stage = "factory" ->
              /\ ~ok
              /\ MongoReject(a, "factory")
         [] attempts[a].stage = "connect" ->
              IF ~ok THEN MongoReject(a, "connect")
              ELSE IF ~config.database THEN MongoReject(a, "dbname")
              ELSE /\ attempts' = [attempts EXCEPT ![a].stage = "ping"]
                   /\ last' = Step("initMongoDB", a, "pending", {"ping"})
                   /\ UNCHANGED <<client, db, init_promise, established>>
         [] attempts[a].stage = "ping" ->
              IF ~ok THEN MongoReject(a, "ping")
              ELSE /\ attempts' = [attempts EXCEPT ![a].state = "resolved"]
                   /\ client' = ClientAfterProbe(a, ok)
                   /\ db' = ClientAfterProbe(a, ok)
                   /\ established' = a
                   /\ last' = Step("__connect", a, "resolved", {})
                   /\ UNCHANGED init_promise
    /\ UNCHANGED <<config, closing, open>>
    /\ UNCHANGED <<calls, rpState, twoState>>

\* what a connect() call that returned promise a observes: the promise was
\* captured when the call returned, so it is a's own outcome
ObservedNever(a) == "pending"
ObservedLate(a) ==
    IF init_promise = 0 THEN "resolved" ELSE attempts[init_promise].state
Observed(a) == attempts[a].state

\* the outcome of a connect() call is delivered to its caller
CallerSettle(a) ==
    /\ a \in Waiting
    /\ Observed(a) # "pending"
    /\ attempts' = [attempts EXCEPT ![a].waiting = @ - 1,
                                    ![a].got = Count(@, Observed(a))]
    /\ last' = Step("connect", "settle", Observed(a), {})
    /\ UNCHANGED <<config, client, db, init_promise, closing, open, established>>
    /\ UNCHANGED <<calls, rpState, twoState>>

\* the guard of close(): `if (this.client)`
HasClientAlways(c) == TRUE
HasClient(c) == c # 0

\* close() on Redis / SQL: no await, the whole body runs inside the call
Close ==
    /\ ~IsMongo
    /\ IF HasClient(client)
         THEN /\ open' = open \ {client}
              /\ client' = 0
              /\ established' = 0
              /\ last' = Step("close", client, "resolved", {"close"})
         ELSE /\ last' = Step("close", 0, "resolved", {})
              /\ UNCHANGED <<open, client, established>>
    /\ UNCHANGED <<config, db, init_promise, attempts, closing>>
    /\ UNCHANGED <<calls, rpState, twoState>>

\* MongoDBConnector.close() up to `await closeMongoDB(this.client)`
MongoCloseStart ==
    /\ IsMongo
    /\ IF HasClient(client)
         THEN /\ NumClosing < MaxClosing
              /\ closing' = [closing EXCEPT ![client] = @ + 1]
              /\ last' = Step("close", client, "pending", {"close"})
         ELSE /\ last' = Step("close", 0, "resolved", {})
              /\ UNCHANGED closing
    /\ UNCHANGED <<config, client, db, init_promise, attempts, open, established>>
    /\ UNCHANGED <<calls, rpState, twoState>>

\* `this.init_promise = null` at the end of MongoDBConnector.close
SlotAfterCloseKept(slot) == slot
SlotAfterClose(slot) == 0

\* MongoDBConnector.close() after the await, for a call that captured client c
MongoCloseSettle(c, ok) ==
    /\ IsMongo
    /\ c \in Ids
    /\ closing[c] > 0
    /\ closing' = [closing EXCEPT ![c] = @ - 1]
    /\ IF ok
         THEN /\ open' = open \ {c}
              /\ client' = 0
              /\ db' = 0
              /\ init_promise' = SlotAfterClose(init_promise)
              /\ established' = 0
              /\ last' = Step("close", c, "resolved", {})
         ELSE /\ last' = Step("close", c, "rejected", {})
              /\ UNCHANGED <<open, client, db, init_promise, established>>
    /\ UNCHANGED <<config, attempts>>
    /\ UNCHANGED <<calls, rpState, twoState>>

\* accessors of the three facades and the argument shapes of getCollection
Accessors ==
    IF IsMongo
      THEN {"getInstance", "getClientInstance", "getDB", "getCollection",
            "getCollection{db:name}", "getCollection{db:Db}"}
      ELSE {"getInstance"}

\* require_client / require_db: throws when the field is null
Require(field) == IF field = 0 THEN "not connected" ELSE "returned"

\* what accessor x does in the current state
AccessResult(x) ==
    CASE x = "getInstance" -> IF IsMongo THEN Require(db) ELSE Require(client)
      [] x = "getClientInstance" -> Require(client)
      [] x = "getDB" -> Require(client)
      [] x = "getCollection" -> Require(db)
      [] x = "getCollection{db:name}" -> Require(client)
      [] x = "getCollection{db:Db}" -> "returned"

\* a synchronous accessor call
Access(x) ==
    /\ x \in Accessors
    /\ last' = Step("access", x, AccessResult(x), {})
    /\ UNCHANGED <<config, client, db, init_promise, attempts, closing, open,
                   established>>
    /\ UNCHANGED <<calls, rpState, twoState>>

\* the field ping and the CRUD operations require: MongoDBConnector goes
\* through require_db (getCollection(name) included), Redis / SQL through
\* require_client
RequiredField == IF IsMongo THEN db ELSE client

\* the value the try / catch of an operation produces
ResultThrown(ok) == IF ok THEN "ok:true" ELSE "rejected"
Result(ok) == IF ok THEN "ok:true" ELSE "ok:false"

\* ping / health, or a MongoDB CRUD operation, up to its awaited driver call;
\* the "not connected" error of require_* is thrown inside the try block
Operation(op) ==
    /\ op \in LcOps
    /\ op = "crud" => IsMongo
    /\ IF Require(RequiredField) = "not connected"
         THEN /\ last' = Step(op, "not connected", Result(FALSE), {})
              /\ UNCHANGED calls
         ELSE /\ NumCalls < MaxCalls
              /\ calls' = [calls EXCEPT ![op] = @ + 1]
              /\ last' = Step(op, "call", "pending", {op \o ".driver"})
    /\ UNCHANGED <<config, client, db, init_promise, attempts, closing, open,
                   established>>
    /\ UNCHANGED <<rpState, twoState>>

\* the awaited driver call of a ping / CRUD operation returns with outcome ok
OperationSettle(op, ok) ==
    /\ op \in LcOps
    /\ calls[op] > 0
    /\ calls' = [calls EXCEPT ![op] = @ - 1]
    /\ last' = Step(op, IF ok THEN "driver ok" ELSE "driver failed", Result(ok), {})
    /\ UNCHANGED <<config, client, db, init_promise, attempts, closing, open,
                   established>>
    /\ UNCHANGED <<rpState, twoState>>

LcNext ==
    \/ ConnectJoin
    \/ \E f \in {"ok", "throw"} : ConnectStart(f)
    \/ \E a \in Ids, ok \in BOOLEAN : ProbeSettle(a, ok)
    \/ \E f \in {"ok", "throw"} : MongoConnectStart(f)
    \/ \E a \in Ids, ok \in BOOLEAN : MongoStep(a, ok)
    \/ \E a \in Ids : CallerSettle(a)
    \/ Close
    \/ MongoCloseStart
    \/ \E c \in Ids, ok \in BOOLEAN : MongoCloseSettle(c, ok)
    \/ \E x \in Accessors : Access(x)
    \/ \E op \in LcOps : Operation(op)
    \/ \E op \in LcOps, ok \in BOOLEAN : OperationSettle(op, ok)


\* ------------------------------------------------------------ part 1 claims

\* C1: on Redis, SQL and MongoDB at most one connect attempt is in flight in
\* every reachable state, and connect() calls issued before the first attempt
\* settles start exactly one attempt.
C1_OneAttemptInFlight ==
    /\ Cardinality(Pending) <= 1
    /\ (Len(attempts) >= 1 /\ attempts[1].state = "pending") => Len(attempts) = 1

\* C2: every connect() call that joined an attempt observes that attempt's
\* outcome: nothing is delivered before it settles, and no caller resolves
\* while another rejects.
C2_SameOutcome ==
    \A a \in 1..Len(attempts) :
        /\ attempts[a].state = "pending" =>
             attempts[a].got.resolved = 0 /\ attempts[a].got.rejected = 0
        /\ attempts[a].state = "resolved" => attempts[a].got.rejected = 0
        /\ attempts[a].state = "rejected" => attempts[a].got.resolved = 0

\* two callers of one failed attempt have both been handed its rejection
C2_Witness ==
    \E a \in 1..Len(attempts) :
        /\ attempts[a].state = "rejected"
        /\ attempts[a].stage # "factory"
        /\ attempts[a].got.rejected >= 2

\* C3: on Redis and SQL a failed attempt is never left in the memoized slot,
\* whether the factory threw or the probe rejected, so that the next connect()
\* starts a fresh attempt.
C3_FailureNotCached ==
    ~IsMongo =>
        /\ \A a \in 1..Len(attempts) :
              attempts[a].state = "rejected" => init_promise # a
        /\ (last.op = "connect" /\ last.arg = "join")
              => attempts[last.result].state # "rejected"

\* C4: on MongoDB a failed attempt (driver connect, missing database name or
\* admin ping) rejects its callers and empties the memoized slot, and no later
\* connect() is handed the failed attempt: it starts a new one.
C4_MongoRetry ==
    IsMongo =>
        /\ \A a \in 1..Len(attempts) :
              attempts[a].state = "rejected" =>
                  init_promise # a /\ attempts[a].got.resolved = 0
        /\ (last.op = "__connect" /\ last.result = "rejected") => init_promise = 0
        /\ (last.op = "connect" /\ last.arg \in {"join", "start"})
              => attempts[last.result].state # "rejected"

\* after a failed ping the caller was rejected and a second attempt connected
C4_Witness ==
    /\ IsMongo
    /\ Len(attempts) = 2
    /\ attempts[1].state = "rejected"
    /\ attempts[1].stage = "ping"
    /\ attempts[1].got.rejected >= 1
    /\ attempts[2].state = "resolved"
    /\ client = 2

\* C5: while no connect attempt has resolved since construction or the last
\* close, every accessor fails with "not connected" and issues no driver call.
C5_FailFast ==
    (last.op = "access" /\ established = 0)
        => last.result = "not connected" /\ last.io = {}

\* ------------------------------------------------------------------ part 2
MaxSubs     == 3    \* sub-client creations (kafka.admin/producer/consumer) per behaviour
MaxInFlight == 2    \* RedpandaConnector calls that have not returned
MaxTopics   == 1    \* topics in a subscribe config

Groups == {"G1", "G2"}
AdminOps == {"connect", "ping", "createTopic", "listTopics", "deleteTopic",
             "fetchTopicMetadata"}

adminClient == handle["admin"]
admin_promise == promise["admin"]
producer == handle["producer"]
producer_promise == promise["producer"]
consumer == handle["consumer"]
consumer_promise == promise["consumer"]

SubIds == 1..MaxSubs
NumSubs == Len(subs["admin"]) + Len(subs["producer"]) + Len(subs["consumer"])

\* a suspended call: operation, group, position, awaited sub-client, t: the
\* topics left to subscribe (close: the number of tasks it pushed), and the
\* disconnect tasks it still awaits
Call(op, g, pc, p, t, pend) ==
    [op |-> op, g |-> g, pc |-> pc, p |-> p, t |-> t, pend |-> pend]

InFlight == BagToSet(inflight)
Suspend(c) == inflight (+) SetToBag({c})
Return(c) == inflight (-) SetToBag({c})
Replace(c, d) == (inflight (-) SetToBag({c})) (+) SetToBag({d})

\* the sub-client a call works on
RoleOf(op) ==
    CASE op \in {"connect", "admin"} -> "admin"
      [] op = "publish" -> "producer"
      [] op \in {"subscribe", "unsubscribe"} -> "consumer"

\* the sub-client object and the promise of its __connect_* call; `old`
\* records, for an admin or producer, that close() was called after its
\* connect succeeded
NewSub(g, state) == [g |-> g, state |-> state, live |-> FALSE, old |-> FALSE]

\* a close() call begins: the sub-clients connected so far precede it
BeforeClose(s) ==
    [r \in Roles |->
        [h \in 1..Len(s[r]) |->
            IF r # "consumer" /\ s[r][h].state = "resolved"
              THEN [s[r][h] EXCEPT !.old = TRUE]
            ELSE s[r][h]]]

\* the sub-client objects themselves, without the record of close() calls
SubClients(s) ==
    [r \in Roles |->
        [h \in 1..Len(s[r]) |->
            [g |-> s[r][h].g, state |-> s[r][h].state, live |-> s[r][h].live]]]

\* the constructor calls initRedpanda, which starts a warm-up admin connect
RpInit ==
    /\ config = [kind |-> "redpanda", database |-> TRUE]
    /\ client = 0 /\ db = 0 /\ init_promise = 0 /\ attempts = <<>>
    /\ closing = [c \in Ids |-> 0] /\ open = {} /\ established = 0
    /\ calls = [op \in LcOps |-> 0]
    /\ inst = [i \in Instances |-> NewInstance] /\ created = <<>>
    /\ handle = [r \in Roles |-> 0]
    /\ promise = [r \in Roles |-> 0]
    /\ consumer_running = FALSE
    /\ consumer_group_id = "none"
    /\ subs = [r \in Roles |-> <<>>]
    /\ inflight = EmptyBag
    /\ rp_connected = FALSE
    /\ last = Step("new", "none", "returned", {"warmup.connect"})

\* getAdmin / getProducer / getConsumer with an empty slot: __connect_<role>
\* runs up to its first await inside the call.  When the kafka factory throws,
\* the catch block runs first and the rejected promise is memoized after it.
StartSub(role, g, f) ==
    /\ NumSubs < MaxSubs
    /\ promise' = [promise EXCEPT ![role] = Len(subs[role]) + 1]
    /\ subs' = [subs EXCEPT ![role] =
                  Append(@, NewSub(g, IF f = "throw" THEN "rejected" ELSE "pending"))]

\* the driver calls StartSub issues
StartIo(role, f) ==
    IF f = "throw" THEN {"kafka." \o role}
    ELSE {"kafka." \o role, role \o ".connect"}

\* ping and the four topic operations have the same shape (await getAdmin(),
\* await one admin request, catch): steps and suspended calls keep that shape
OpClass(op) == IF op = "connect" THEN "connect" ELSE "admin"

\* connect, ping and the topic operations up to `await this.getAdmin()`
AdminCall(op, f) ==
    /\ op \in AdminOps
    /\ BagCardinality(inflight) < MaxInFlight
    /\ IF admin_promise = 0
         THEN /\ StartSub("admin", "none", f)
              /\ inflight' = Suspend(Call(OpClass(op), "none", "await_handle",
                                          Len(subs["admin"]) + 1, 0, {}))
              /\ last' = Step(OpClass(op), "call", "pending", StartIo("admin", f))
         ELSE /\ f = "ok"
              /\ inflight' = Suspend(Call(OpClass(op), "none", "await_handle",
                                          admin_promise, 0, {}))
              /\ last' = Step(OpClass(op), "call", "pending", {})
              /\ UNCHANGED <<promise, subs>>
    /\ UNCHANGED <<handle, consumer_running, consumer_group_id, rp_connected>>
    /\ UNCHANGED <<lcState, twoState>>

\* publish up to `await this.getProducer()`
Publish(f) ==
    /\ BagCardinality(inflight) < MaxInFlight
    /\ IF producer_promise = 0
         THEN /\ StartSub("producer", "none", f)
              /\ inflight' = Suspend(Call("publish", "none", "await_handle",
                                          Len(subs["producer"]) + 1, 0, {}))
              /\ last' = Step("publish", "call", "pending", StartIo("producer", f))
         ELSE /\ f = "ok"
              /\ inflight' = Suspend(Call("publish", "none", "await_handle",
                                          producer_promise, 0, {}))
              /\ last' = Step("publish", "call", "pending", {})
              /\ UNCHANGED <<promise, subs>>
    /\ UNCHANGED <<handle, consumer_running, consumer_group_id, rp_connected>>
    /\ UNCHANGED <<lcState, twoState>>

\* the guard of getConsumer
GroupConflictNever(bound, g) == FALSE
GroupConflict(bound, g) == bound # "none" /\ bound # g

\* the guard at the top of subscribe
AlreadyRunningNever(running) == FALSE
AlreadyRunning(running) == running

\* subscribe up to `await this.getConsumer(config.groupId)`
Subscribe(g, t, f) ==
    /\ g \in Groups
    /\ t \in 1..MaxTopics
    /\ IF AlreadyRunning(consumer_running)
         THEN /\ f = "ok"
              /\ last' = Step("subscribe", g, "already running", {})
              /\ UNCHANGED <<promise, subs, inflight, consumer_group_id>>
         ELSE /\ BagCardinality(inflight) < MaxInFlight
              /\ IF GroupConflict(consumer_group_id, g)
                   THEN /\ f = "ok"
                        /\ inflight' = Suspend(Call("subscribe", g, "throwing", 0, t, {}))
                        /\ last' = Step("subscribe", g, "pending", {})
                        /\ UNCHANGED <<promise, subs, consumer_group_id>>
                   ELSE IF consumer_promise = 0
                   THEN /\ StartSub("consumer", g, f)
                        /\ consumer_group_id' = IF f = "throw" THEN "none" ELSE g
                        /\ inflight' = Suspend(Call("subscribe", g, "await_handle",
                                                    Len(subs["consumer"]) + 1, t, {}))
                        /\ last' = Step("subscribe", g, "pending", StartIo("consumer", f))
                   ELSE /\ f = "ok"
                        /\ inflight' = Suspend(Call("subscribe", g, "await_handle",
                                                    consumer_promise, t, {}))
                        /\ last' = Step("subscribe", g, "pending", {})
                        /\ UNCHANGED <<promise, subs, consumer_group_id>>
    /\ UNCHANGED <<handle, consumer_running, rp_connected>>
    /\ UNCHANGED <<lcState, twoState>>

\* __connect_admin / __connect_producer / __connect_consumer after
\* `await <sub-client>.connect()` returned with outcome ok
SubConnectSettle(role, h, ok) ==
    /\ h \in 1..Len(subs[role])
    /\ subs[role][h].state = "pending"
    /\ IF ok
         THEN /\ subs' = [subs EXCEPT ![role][h].state = "resolved",
                                      ![role][h].live = TRUE]
              /\ handle' = [handle EXCEPT ![role] = h]
              /\ UNCHANGED <<promise, consumer_group_id>>
         ELSE /\ subs' = [subs EXCEPT ![role][h].state = "rejected"]
              /\ promise' = [promise EXCEPT ![role] = 0]
              /\ consumer_group_id' = IF role = "consumer" THEN "none"
                                      ELSE consumer_group_id
              /\ UNCHANGED handle
    /\ last' = Internal({})
    /\ UNCHANGED <<consumer_running, inflight, rp_connected>>
    /\ UNCHANGED <<lcState, twoState>>

\* the value a failed call produces: connect() rejects, the others catch and
\* return the error
FailureThrown(op, why) == "rejected"
Failure(op, why) == IF op = "connect" THEN "rejected" ELSE why

\* the driver call a resumed operation issues on its sub-client
DriverOp(c) ==
    CASE c.op = "connect" -> "admin.listTopics"
      [] c.op = "admin" -> "admin.request"
      [] c.op = "publish" -> "producer.send"
      [] c.op = "subscribe" -> IF c.t > 0 THEN "consumer.subscribe" ELSE "consumer.run"

\* a call suspended on getAdmin / getProducer / getConsumer continues
Resume(c) ==
    /\ c \in InFlight
    /\ c.pc \in {"throwing", "await_handle"}
    /\ IF c.pc = "throwing"
         THEN /\ inflight' = Return(c)
              /\ last' = Step(c.op, c.g, "group conflict", {})
         ELSE /\ subs[RoleOf(c.op)][c.p].state # "pending"
              /\ IF subs[RoleOf(c.op)][c.p].state = "rejected"
                   THEN /\ inflight' = Return(c)
                        /\ last' = Step(c.op, c.g, Failure(c.op, "error"), {})
                   ELSE /\ inflight' = Replace(c, [c EXCEPT !.pc = "await_op"])
                        /\ last' = Internal({DriverOp(c)})
    /\ UNCHANGED <<subs, handle, promise, consumer_running, consumer_group_id,
                   rp_connected>>
    /\ UNCHANGED <<lcState, twoState>>

\* `this.consumer_running = true` after `await consumer.run(...)`
RunningAfterRun(ok) == ok

\* what the step that ends call c is labelled with: the group of a subscribe,
\* else the outcome of the awaited driver call
Outcome(c, ok) ==
    IF c.op = "subscribe" THEN c.g
    ELSE IF ok THEN "driver ok" ELSE "driver failed"

\* the awaited driver call of a resumed operation returns with outcome ok
OpSettle(c, ok) ==
    /\ c \in InFlight
    /\ c.pc = "await_op"
    /\ IF ~ok
         THEN /\ inflight' = Return(c)
              /\ last' = Step(c.op, Outcome(c, ok), Failure(c.op, "error"), {})
              /\ UNCHANGED <<consumer_running, rp_connected>>
         ELSE IF c.op = "subscribe" /\ c.t > 0
         THEN LET d == [c EXCEPT !.t = c.t - 1] IN
              /\ inflight' = Replace(c, d)
              /\ last' = Internal({DriverOp(d)})
              /\ UNCHANGED <<consumer_running, rp_connected>>
         ELSE /\ inflight' = Return(c)
              /\ last' = Step(c.op, Outcome(c, ok),
                              IF c.op = "connect" THEN "resolved" ELSE "ok", {})
              /\ consumer_running' = IF c.op = "subscribe" THEN RunningAfterRun(ok)
                                     ELSE consumer_running
              /\ rp_connected' = (rp_connected \/ c.op = "connect")
    /\ UNCHANGED <<subs, handle, promise, consumer_group_id>>
    /\ UNCHANGED <<lcState, twoState>>

\* a pending disconnect of sub-client h of `role`
Task(role, h) == [role |-> role, h |-> h]

\* unsubscribe up to `await this.consumer.disconnect()`
Unsubscribe ==
    /\ IF consumer # 0
         THEN /\ BagCardinality(inflight) < MaxInFlight
              /\ inflight' = Suspend(Call("unsubscribe", "none", "await_disc", 0, 0,
                                          {Task("consumer", consumer)}))
              /\ last' = Step("unsubscribe", "call", "pending", {"consumer.disconnect"})
         ELSE /\ last' = Step("unsubscribe", "call", "resolved", {})
              /\ UNCHANGED inflight
    /\ UNCHANGED <<subs, handle, promise, consumer_running, consumer_group_id,
                   rp_connected>>
    /\ UNCHANGED <<lcState, twoState>>

\* the disconnect tasks close() pushes: one per sub-client field that is set
CloseTasksFirstOnly ==
    IF producer # 0 THEN {Task("producer", producer)}
    ELSE IF consumer # 0 THEN {Task("consumer", consumer)}
    ELSE IF adminClient # 0 THEN {Task("admin", adminClient)}
    ELSE {}
CloseTasks == {Task(r, handle[r]) : r \in {q \in Roles : handle[q] # 0}}

\* close up to `await Promise.all(tasks)`: every disconnect is issued here
RpClose ==
    /\ IF CloseTasks # {}
         THEN /\ BagCardinality(inflight) < MaxInFlight
              /\ inflight' = Suspend(Call("close", "none", "await_all", 0,
                                          Cardinality(CloseTasks), CloseTasks))
              /\ last' = Step("close", "call", "pending",
                              {k.role \o ".disconnect" : k \in CloseTasks})
         ELSE /\ last' = Step("close", "call", "resolved", {})
              /\ UNCHANGED inflight
    /\ subs' = BeforeClose(subs)
    /\ UNCHANGED <<handle, promise, consumer_running, consumer_group_id,
                   rp_connected>>
    /\ UNCHANGED <<lcState, twoState>>

\* the fields the callback after a successful disconnect of `role` clears
ClearedByNone(role) == {}
ClearedByAll(role) == Roles
ClearedBy(role) == {role}

\* the assignments after the disconnect of task k succeeded
Clear(k) ==
    LET rs == ClearedBy(k.role) IN
    /\ handle' = [r \in Roles |-> IF r \in rs THEN 0 ELSE handle[r]]
    /\ promise' = [r \in Roles |-> IF r \in rs THEN 0 ELSE promise[r]]
    /\ consumer_running' = IF "consumer" \in rs THEN FALSE ELSE consumer_running
    /\ consumer_group_id' = IF "consumer" \in rs THEN "none" ELSE consumer_group_id

\* the assignments after `await disconnect()` in unsubscribe and the .then
\* callbacks of close run only when the disconnect resolved
TeardownDoneAlways(ok) == TRUE
TeardownDone(ok) == ok

\* a disconnect issued by unsubscribe or close returns with outcome ok.
\* Promise.all rejects close() at the first failed task and resolves it when
\* the last task resolved; the tasks still pending run on either way.
DisconnectSettle(c, k, ok) ==
    /\ c \in InFlight
    /\ c.pc \in {"await_disc", "await_all", "rejected"}
    /\ k \in c.pend
    /\ LET rest == c.pend \ {k}
           pc == IF ok \/ c.pc = "rejected" THEN c.pc ELSE "rejected"
           d == [c EXCEPT !.pend = rest, !.pc = pc] IN
       /\ inflight' = IF rest = {} THEN Return(c) ELSE Replace(c, d)
       /\ last' = IF ~ok /\ c.pc # "rejected" THEN Step(c.op, k.role, "rejected", {})
                  ELSE IF ok /\ rest = {} /\ c.pc # "rejected"
                    THEN Step(c.op, k.role, "resolved", {})
                  ELSE Step("task", k.role, IF ok THEN "resolved" ELSE "rejected", {})
    /\ IF TeardownDone(ok)
         THEN /\ Clear(k)
              /\ subs' = [subs EXCEPT ![k.role][k.h].live = FALSE]
         ELSE UNCHANGED <<handle, promise, consumer_running, consumer_group_id, subs>>
    /\ UNCHANGED rp_connected
    /\ UNCHANGED <<lcState, twoState>>

Tasks == {Task(r, h) : r \in Roles, h \in SubIds}

RpNext ==
    \/ \E op \in AdminOps, f \in {"ok", "throw"} : AdminCall(op, f)
    \/ \E f \in {"ok", "throw"} : Publish(f)
    \/ \E g \in Groups, t \in 1..MaxTopics, f \in {"ok", "throw"} : Subscribe(g, t, f)
    \/ \E r \in Roles, h \in SubIds, ok \in BOOLEAN : SubConnectSettle(r, h, ok)
    \/ \E c \in InFlight : Resume(c)
    \/ \E c \in InFlight, ok \in BOOLEAN : OpSettle(c, ok)
    \/ Unsubscribe
    \/ RpClose
    \/ \E c \in InFlight, k \in Tasks, ok \in BOOLEAN : DisconnectSettle(c, k, ok)

\* a Redis, SQL or MongoDB instance (the part 2 fields stay unused)
Spec == LcInit /\ [][LcNext]_vars

\* a RedpandaConnector instance (the part 1 fields stay unused)
SpecRP == RpInit /\ [][RpNext]_vars

\* any of the four connectors: the facade is fixed by config.kind
AllInit == LcInit \/ RpInit

AllNext ==
    \/ config.kind \in Kinds /\ LcNext
    \/ config.kind = "redpanda" /\ RpNext

SpecAll == AllInit /\ [][AllNext]_vars

\* ------------------------------------------------------------------ part 3
\* Two MongoDBConnector instances in one process.  Driver clients are
\* numbered in creation order; a step's io is the set of clients it calls.

MaxMade == 3    \* MongoClient objects created per behaviour

\* the object whose fields a method of instance i reads and writes: `this`
ThisShared(i) == "A"
This(i) == i

\* connect() of instance i: joins the memoized attempt or starts one, which
\* creates a MongoClient and awaits initMongoDB
TwoConnect(i) ==
    /\ IF inst[This(i)].init_promise = 0
         THEN /\ Len(created) < MaxMade
              /\ LET k == Len(created) + 1 IN
                 /\ created' = Append(created, i)
                 /\ inst' = [inst EXCEPT ![This(i)].init_promise = k,
                                         ![This(i)].pending = @ \cup {k}]
                 /\ last' = Step("connect", i, "pending", {k})
         ELSE /\ last' = Step("connect", i, "joined", {})
              /\ UNCHANGED twoState
    /\ UNCHANGED <<lcState, rpState>>

\* __connect of instance i after `await initMongoDB` for client k
TwoSettle(i, k, ok) ==
    /\ k \in inst[This(i)].pending
    /\ created[k] = i
    /\ inst' = [inst EXCEPT
                  ![This(i)] = IF ok
                                 THEN [@ EXCEPT !.client = k, !.db = k,
                                                !.pending = @ \ {k}]
                                 ELSE [@ EXCEPT !.init_promise = SlotAfterFailure(@),
                                                !.pending = @ \ {k}]]
    /\ last' = Step("__connect", i, IF ok THEN "resolved" ELSE "rejected", {})
    /\ UNCHANGED created
    /\ UNCHANGED <<lcState, rpState>>

\* close() of instance i up to `await closeMongoDB(this.client)`
TwoCloseStart(i) ==
    /\ IF HasClient(inst[This(i)].client)
         THEN /\ inst[This(i)].client \notin inst[This(i)].closing
              /\ inst' = [inst EXCEPT ![This(i)].closing = @ \cup {inst[This(i)].client}]
              /\ last' = Step("close", i, "pending", {inst[This(i)].client})
         ELSE /\ last' = Step("close", i, "resolved", {})
              /\ UNCHANGED inst
    /\ UNCHANGED created
    /\ UNCHANGED <<lcState, rpState>>

\* close() of instance i after the await, for the call that captured client c
TwoCloseSettle(i, c, ok) ==
    /\ c \in inst[This(i)].closing
    /\ inst' = [inst EXCEPT
                  ![This(i)] = IF ok
                                 THEN [@ EXCEPT !.client = 0, !.db = 0,
                                                !.init_promise = SlotAfterClose(@),
                                                !.closing = @ \ {c}]
                                 ELSE [@ EXCEPT !.closing = @ \ {c}]]
    /\ last' = Step("close", i, IF ok THEN "resolved" ELSE "rejected", {})
    /\ UNCHANGED created
    /\ UNCHANGED <<lcState, rpState>>

\* a CRUD operation of instance i up to its awaited driver call
TwoCrud(i) ==
    /\ IF Require(inst[This(i)].db) = "not connected"
         THEN /\ last' = Step("crud", i, Result(FALSE), {})
              /\ UNCHANGED inst
         ELSE /\ inst[This(i)].calls < MaxCalls
              /\ inst' = [inst EXCEPT ![This(i)].calls = @ + 1]
              /\ last' = Step("crud", i, "pending", {inst[This(i)].db})
    /\ UNCHANGED created
    /\ UNCHANGED <<lcState, rpState>>

\* the awaited driver call of a CRUD operation of instance i returns
TwoCrudSettle(i, ok) ==
    /\ inst[This(i)].calls > 0
    /\ inst' = [inst EXCEPT ![This(i)].calls = @ - 1]
    /\ last' = Step("crud", i, Result(ok), {})
    /\ UNCHANGED created
    /\ UNCHANGED <<lcState, rpState>>

\* after `new MongoDBConnector(c1)` and `new MongoDBConnector(c2)`
TwoInit ==
    /\ config = [kind |-> "two", database |-> TRUE]
    /\ client = 0 /\ db = 0 /\ init_promise = 0 /\ attempts = <<>>
    /\ closing = [c \in Ids |-> 0] /\ open = {} /\ established = 0
    /\ calls = [op \in LcOps |-> 0]
    /\ handle = [r \in Roles |-> 0] /\ promise = [r \in Roles |-> 0]
    /\ consumer_running = FALSE /\ consumer_group_id = "none"
    /\ subs = [r \in Roles |-> <<>>]
    /\ inflight = EmptyBag /\ rp_connected = FALSE
    /\ inst = [i \in Instances |-> NewInstance]
    /\ created = <<>>
    /\ last = Step("new", "none", "returned", {})

TwoNext ==
    \/ \E i \in Instances : TwoConnect(i)
    \/ \E i \in Instances, k \in 1..MaxMade, ok \in BOOLEAN : TwoSettle(i, k, ok)
    \/ \E i \in Instances : TwoCloseStart(i)
    \/ \E i \in Instances, c \in 1..MaxMade, ok \in BOOLEAN : TwoCloseSettle(i, c, ok)
    \/ \E i \in Instances : TwoCrud(i)
    \/ \E i \in Instances, ok \in BOOLEAN : TwoCrudSettle(i, ok)

\* two MongoDBConnector instances (the part 1 and part 2 fields stay unused)
SpecTwo == TwoInit /\ [][TwoNext]_vars

\* ------------------------------------------------------------ part 2 claims

DomainOps == {"admin", "publish", "subscribe"}

\* the four consumer fields are empty
ConsumerCleared ==
    /\ consumer = 0
    /\ consumer_promise = 0
    /\ ~consumer_running
    /\ consumer_group_id = "none"

\* C6: a topic operation, publish or subscribe on an instance on which
\* connect() never resolved fails with "not connected" and issues no driver
\* call.
C6_NotConnectedGuard ==
    (~rp_connected /\ last.op \in DomainOps)
        => last.result = "not connected" /\ last.io = {}

\* C7: while the consumer is bound to group G1, a subscribe call with another
\* group fails with a conflict error (the group conflict, or "already running"
\* when the consumer runs), issues no driver call, creates no consumer and
\* leaves every connector field as it was.
C7_ConflictKeepsConsumer ==
    [][\A g \in Groups :
          /\ ( /\ consumer_group_id \notin {"none", g}
               /\ last'.op = "subscribe" /\ last'.arg = g
               /\ last'.result \in {"pending", "already running"} )
             => /\ UNCHANGED <<handle, promise, consumer_running,
                               consumer_group_id, subs>>
                /\ last'.io = {}
                /\ \/ last'.result = "already running" /\ UNCHANGED inflight
                   \/ \E t \in 1..MaxTopics :
                        inflight' = Suspend(Call("subscribe", g, "throwing", 0, t, {}))
          /\ \A c \in InFlight :
               (c.pc = "throwing" /\ CopiesIn(c, inflight') < CopiesIn(c, inflight))
                 => /\ last' = Step("subscribe", c.g, "group conflict", {})
                    /\ UNCHANGED <<handle, promise, consumer_running,
                                   consumer_group_id, subs>>
      ]_vars

\* a subscribe with G2 was refused while the consumer of G1 exists
C7_Witness ==
    /\ last = Step("subscribe", "G2", "group conflict", {})
    /\ consumer_group_id = "G1"
    /\ consumer # 0
    /\ ~consumer_running

\* C8: of two subscribe calls with the same group id that overlap, exactly one
\* issues consumer.run: never are two consumer.run calls of one group
\* outstanding together, and none is issued while the consumer already runs.
C8_OneConsumeLoop ==
    /\ \A c \in InFlight :
         (c.op = "subscribe" /\ c.pc = "await_op" /\ c.t = 0)
           => /\ CopiesIn(c, inflight) = 1
              /\ \A d \in InFlight :
                   (d.op = "subscribe" /\ d.pc = "await_op" /\ d.t = 0
                      /\ d.g = c.g) => d = c
    /\ (last = Internal({"consumer.run"})) => ~consumer_running

\* C9: close() issues a disconnect on every active sub-client before it
\* awaits any; a failed disconnect leaves the others pending, and every
\* disconnect that succeeds clears the fields of its sub-client.
C9_CloseTearsDownAll ==
    /\ (last.op = "close" /\ last.arg = "call") =>
          /\ last.io = {r \o ".disconnect" : r \in {q \in Roles : handle[q] # 0}}
          /\ (last.io # {}) =>
                \E c \in InFlight :
                    /\ c.op = "close" /\ c.pc = "await_all"
                    /\ c.pend = {Task(r, handle[r]) : r \in {q \in Roles : handle[q] # 0}}
    /\ (last.op = "close" /\ last.result = "rejected") =>
          \A c \in InFlight : c.op = "close" => c.pend # {}
    /\ \A r \in Roles :
          (last.op \in {"close", "task"} /\ last.arg = r /\ last.result = "resolved")
            => /\ handle[r] = 0
               /\ promise[r] = 0
               /\ r = "consumer" => ConsumerCleared

\* a close() with three tasks: one disconnect failed, then another succeeded
\* and cleared its fields while the third is still pending
C9_Witness ==
    \E c \in InFlight :
        /\ c.op = "close" /\ c.t = 3 /\ c.pc = "rejected"
        /\ Cardinality(c.pend) = 1
        /\ last.op = "task" /\ last.result = "resolved"
        /\ handle[last.arg] = 0
        /\ \E r \in Roles : handle[r] # 0 /\ Task(r, handle[r]) \notin c.pend

\* C10: unsubscribe() with an active consumer issues a disconnect on the
\* consumer only, and once that disconnect resolved the four consumer fields
\* are empty; no step of unsubscribe changes the admin or producer fields.
C10_UnsubscribeConsumerOnly ==
    [][(last'.op = "unsubscribe") =>
          /\ handle'["admin"] = handle["admin"]
          /\ promise'["admin"] = promise["admin"]
          /\ handle'["producer"] = handle["producer"]
          /\ promise'["producer"] = promise["producer"]
          /\ subs'["admin"] = subs["admin"]
          /\ subs'["producer"] = subs["producer"]
          /\ (last'.arg = "call" /\ consumer # 0) =>
                last'.io = {"consumer.disconnect"}
          /\ (last'.arg = "call" /\ consumer = 0) => last'.io = {}
          /\ (last'.result = "resolved" /\ last'.arg = "consumer") => ConsumerCleared'
      ]_vars

\* an unsubscribe() resolved on an instance whose admin and producer are up
C10_Witness ==
    /\ last = Step("unsubscribe", "consumer", "resolved", {})
    /\ ConsumerCleared
    /\ adminClient # 0 /\ subs["admin"][adminClient].live
    /\ producer # 0 /\ subs["producer"][producer].live

\* ------------------------------------------- claims on the four connectors

C12_CloseAllowsReconnect ==
    (config.kind \in {"redis", "sql"}) =>
        /\ (client = 0 /\ init_promise # 0) =>
              attempts[init_promise].state # "resolved"
        /\ (last.op = "connect" /\ last.arg = "join"
              /\ attempts[last.result].state = "resolved") => client # 0

\* C13: on MongoDB a close() that completed has reset client, db and
\* init_promise, a connect() with the empty slot starts a new attempt, and an
\* attempt that resolves leaves the instance connected to its own client.
C13_MongoCloseResets ==
    IsMongo =>
        /\ (last.op = "close" /\ last.arg # 0 /\ last.result = "resolved") =>
              (client = 0 /\ db = 0 /\ init_promise = 0)
        /\ (last.op = "connect" /\ last.arg = "start") =>
              /\ last.result = Len(attempts)
              /\ init_promise = last.result
              /\ attempts[last.result].state = "pending"
              /\ "create" \in last.io
        /\ (last.op = "__connect" /\ last.result = "resolved") =>
              (client = last.arg /\ db = last.arg /\ established = last.arg)

\* connect, close, then a second attempt that resolved on a new client
C13_Witness ==
    /\ IsMongo
    /\ Len(attempts) = 2
    /\ attempts[1].state = "resolved"
    /\ last = Step("__connect", 2, "resolved", {})
    /\ client = 2 /\ db = 2
    /\ open = {2}

\* C14: a close() called while the instance holds no established handle
\* (client is null; on Redpanda no sub-client field is set) issues no driver
\* call, changes no field and resolves.
C14_CloseNoOp ==
    [][ /\ ( /\ config.kind \in Kinds
             /\ client = 0
             /\ last'.op = "close"
             /\ \A c \in Ids : closing'[c] >= closing[c] )
           => /\ last' = Step("close", 0, "resolved", {})
              /\ UNCHANGED <<lcState, twoState>>
        /\ ( /\ config.kind = "redpanda"
             /\ \A r \in Roles : handle[r] = 0
             /\ last'.op = "close"
             /\ last'.arg = "call" )
           => /\ last' = Step("close", "call", "resolved", {})
              /\ UNCHANGED <<handle, promise, consumer_running, consumer_group_id,
                             inflight, rp_connected, twoState>>
              /\ SubClients(subs') = SubClients(subs)
      ]_vars

\* a close() that found no client on an instance that was connected and
\* closed before
C14_Witness ==
    /\ config.kind \in Kinds
    /\ last = Step("close", 0, "resolved", {})
    /\ Len(attempts) = 1
    /\ attempts[1].state = "resolved"
    /\ client = 0
    /\ open = {}

\* C15: on Redis, SQL and MongoDB a connect() called while the instance is
\* connected (an attempt resolved and no close() completed since) joins the
\* memoized attempt: it starts no attempt and issues no driver call.
C15_ConnectIdempotent ==
    (config.kind \in Kinds /\ last.op = "connect") =>
        /\ (last.arg = "join") => last.io = {}
        /\ (last.arg = "start") => established = 0
        /\ (last.arg = "join" /\ established # 0) =>
              attempts[last.result].state = "resolved"

\* C16: the connect() calls of a RedpandaConnector share one attempt: a
\* connect() made while the admin is set connects no admin, concurrent calls
\* never have two admin.listTopics probes outstanding, and no probe is sent
\* once a connect() has resolved.
C16_ConnectSharesAttempt ==
    /\ (last.op = "connect" /\ last.arg = "call" /\ adminClient # 0) => last.io = {}
    /\ \A c \in InFlight :
         (c.op = "connect" /\ c.pc = "await_op") => CopiesIn(c, inflight) = 1
    /\ (last = Internal({"admin.listTopics"})) => ~rp_connected

\* C17: constructing a connector performs no I/O: the state right after the
\* constructor returned has asked no driver client to connect, the factory
\* the constructor calls included.
C17_ConstructNoIO ==
    (last.op = "new") => last.io = {}

\* C18: a contract violation makes the call throw or reject (result
\* "rejected") and is never returned as an { ok: false, error } value: a
\* MongoDB CRUD operation before connect(), a subscribe with a conflicting
\* group id, a subscribe while the consumer runs.
C18_ViolationsThrow ==
    /\ (config.kind = "mongo" /\ last.op = "crud" /\ last.arg = "not connected")
          => last.result = "rejected"
    /\ (config.kind = "redpanda" /\ last.op = "subscribe")
          => last.result \notin {"group conflict", "already running"}

\* C19: a MongoDB CRUD operation and a Redpanda topic or publish operation
\* whose driver call failed returns a failure result and does not throw, and
\* one whose driver call succeeded returns a success result.
C19_DriverErrorsReturned ==
    /\ (config.kind = "mongo" /\ last.op = "crud") =>
          /\ last.result \in {"pending", "ok:true", "ok:false"}
          /\ (last.arg = "driver failed") => last.result = "ok:false"
          /\ (last.arg = "driver ok") => last.result = "ok:true"
    /\ (config.kind = "redpanda" /\ last.op \in {"admin", "publish"}) =>
          /\ last.result \in {"pending", "ok", "error"}
          /\ (last.arg = "driver failed") => last.result = "error"
          /\ (last.arg = "driver ok") => last.result = "ok"
          /\ (last.result = "ok") => last.arg = "driver ok"

\* a publish on a connected instance whose producer.send failed
C19_Witness ==
    /\ config.kind = "redpanda"
    /\ last = Step("publish", "driver failed", "error", {})
    /\ producer # 0
    /\ rp_connected

LiveConsumers == {h \in 1..Len(subs["consumer"]) : subs["consumer"][h].live}

\* C21: at most one consumer created by the instance is connected and not yet
\* disconnected, and while it exists consumer_group_id is the group id of the
\* subscribe call that created it.
C21_OneLiveConsumer ==
    /\ Cardinality(LiveConsumers) <= 1
    /\ \A h \in LiveConsumers : consumer_group_id = subs["consumer"][h].g

\* ------------------------------------- claims on the lifecycle connectors

ConnectedSinceClose(role) ==
    {h \in 1..Len(subs[role]) : subs[role][h].state = "resolved" /\ ~subs[role][h].old}

\* C23: the admin (resp. producer) handle is created by the first operation
\* that needs it and shared by the operations started meanwhile, so between
\* two close() calls at most one admin connect and at most one producer
\* connect succeed.
C23_OneConnectBetweenCloses ==
    \A role \in {"admin", "producer"} : Cardinality(ConnectedSinceClose(role)) <= 1

\* C24: after the creation of a sub-resource failed, its memoized promise is
\* cleared, so the next operation starts a fresh attempt; this holds whether
\* the kafka factory call throws or the handle's connect() rejects.
C24_FailedCreationCleared ==
    \A role \in Roles :
        promise[role] # 0 => subs[role][promise[role]].state # "rejected"

\* C25: an operation (health / ping, getInstance, a domain operation) issued
\* while connect() is in flight awaits that attempt: it does not complete, and
\* does not fail with "not connected", before the attempt has settled.
C25_OperationAwaitsConnect ==
    (init_promise # 0 /\ attempts[init_promise].state = "pending") =>
        /\ (last.op = "access") => last.result # "not connected"
        /\ (last.op \in LcOps) => last.arg # "not connected"

\* C26: once a subscribe call has completed successfully (consumer_running is
\* true) and until unsubscribe() or close() clears it, every further subscribe
\* call, with the same or another group id, fails with "already running"
\* before any driver call and leaves all connector fields unchanged.
C26_RunningRejectsSubscribe ==
    [][( /\ consumer_running
         /\ last'.op = "subscribe"
         /\ last'.result \in {"pending", "already running"} )
       => /\ last'.result = "already running"
          /\ last'.io = {}
          /\ UNCHANGED rpState
      ]_vars

\* a subscribe with the group of the running consumer was refused
C26_Witness ==
    /\ last = Step("subscribe", "G1", "already running", {})
    /\ consumer_running
    /\ consumer_group_id = "G1"
    /\ consumer # 0

\* C27: after a subscribe with group G1 has completed and a following
\* unsubscribe() has completed, with no other call overlapping, a subscribe
\* with any group G2 is accepted: it is not refused for a group conflict or
\* for "already running" and creates a new consumer bound to G2.
C27_UnsubscribeFreesGroup ==
    [][\A g \in Groups :
          ( /\ last = Step("unsubscribe", "consumer", "resolved", {})
            /\ inflight = EmptyBag
            /\ last'.op = "subscribe" /\ last'.arg = g
            /\ last'.result \in {"pending", "already running"} )
          => LET h == Len(subs["consumer"]) + 1 IN
             /\ last'.result = "pending"
             /\ "kafka.consumer" \in last'.io
             /\ consumer_promise' = h
             /\ Len(subs'["consumer"]) = h
             /\ subs'["consumer"][h].g = g
             /\ ("consumer.connect" \in last'.io)
                   => /\ consumer_group_id' = g
                      /\ subs'["consumer"][h].state = "pending"
             /\ \E t \in 1..MaxTopics :
                  inflight' = Suspend(Call("subscribe", g, "await_handle", h, t, {}))
      ]_vars

\* the consumer of G1 was disconnected by unsubscribe and a subscribe with G2
\* has created the next consumer
C27_Witness ==
    /\ last = Step("subscribe", "G2", "pending", {"kafka.consumer", "consumer.connect"})
    /\ Len(subs["consumer"]) = 2
    /\ subs["consumer"][1].g = "G1" /\ subs["consumer"][1].state = "resolved"
    /\ ~subs["consumer"][1].live
    /\ consumer_promise = 2 /\ consumer_group_id = "G2"
    /\ BagCardinality(inflight) = 1

\* C28: close() issues the disconnect of every active handle (producer,
\* consumer, admin) in its call step, before it awaits any of them: no
\* disconnect is issued by a later step of close, after another handle's
\* disconnect has completed.
C28_CloseDisconnectsInParallel ==
    [][/\ (last'.op = "close" /\ last'.arg = "call") =>
             LET active == {r \in Roles : handle[r] # 0} IN
             /\ last'.io = {r \o ".disconnect" : r \in active}
             /\ UNCHANGED <<handle, promise, consumer_running, consumer_group_id>>
             /\ (active # {}) =>
                   inflight' = Suspend(Call("close", "none", "await_all", 0,
                                            Cardinality(active),
                                            {Task(r, handle[r]) : r \in active}))
       /\ (last'.op \in {"close", "task"} /\ last'.arg \in Roles) =>
             /\ last'.io = {}
             /\ \A c \in BagToSet(inflight') :
                   (c.op = "close" /\ c \notin InFlight) =>
                       \E d \in InFlight :
                           d.op = "close" /\ d.t = c.t /\ c.pend \subseteq d.pend
      ]_vars

\* close() was called with the three handles active: the three disconnects
\* are pending together
C28_Witness ==
    /\ last = Step("close", "call", "pending",
                   {"producer.disconnect", "consumer.disconnect", "admin.disconnect"})
    /\ \E c \in InFlight :
          /\ c.op = "close" /\ c.pc = "await_all" /\ c.t = 3
          /\ c.pend = {Task(r, handle[r]) : r \in Roles}
    /\ \A r \in Roles : handle[r] # 0 /\ subs[r][handle[r]].live

\* C29: when a connect() call resolves successfully the instance is connected:
\* from that moment until the next close() call getInstance() returns a
\* client and does not throw "not connected", also when the connect() was
\* called after an earlier close() completed or while one was in progress.
C29_ResolvedConnectIsConnected ==
    (last.op = "connect" /\ last.arg = "settle" /\ last.result = "resolved")
        => AccessResult("getInstance") = "returned"

\* C30: in every reachable state, under any interleaving of subscribe,
\* unsubscribe and close calls, consumer_running = true implies that a
\* consumer handle exists and a group id is bound.
C30_RunningHasConsumer ==
    consumer_running => (consumer # 0 /\ consumer_group_id # "none")

\* ------------------------------------------------ claims on teardown

\* C31: a close() called while a connect attempt is in flight is not lost:
\* once the attempt has settled too (here: its probe succeeded), the instance
\* holds no open client (client is null and the client the attempt created
\* has been closed).
C31_CloseNotLost ==
    [][\A a \in 1..Len(attempts) :
          ( /\ last = Step("close", 0, "resolved", {})
            /\ attempts[a].state = "pending"
            /\ last'.op = "__connect" /\ last'.arg = a
            /\ last'.result = "resolved" )
          => (client' = 0 /\ a \notin open')
      ]_vars

\* C32: from any reachable state, an unsubscribe() that was called while no
\* other call was in flight and has resolved re-enables subscribe: the next
\* subscribe call, with any group id, is refused neither for a group conflict
\* nor for "already running".
C32_UnsubscribeReenables ==
    (last.op = "unsubscribe" /\ last.result = "resolved" /\ inflight = EmptyBag)
        => /\ ~AlreadyRunning(consumer_running)
           /\ \A g \in Groups : ~GroupConflict(consumer_group_id, g)

\* C33: close() does not settle before every disconnect it initiated has
\* settled: when the disconnect of one handle fails, close() does not reject
\* while the disconnect of another handle is still pending.
C33_CloseSettlesLast ==
    \A c \in InFlight : (c.op = "close" /\ c.pc = "rejected") => c.pend = {}

\* C34: under any interleaving of concurrent close() and unsubscribe() calls
\* on one instance the driver's close / disconnect is invoked at most once on
\* each established handle: no two calls await the teardown of the same
\* MongoDB client or of the same Redpanda sub-client.
C34_TeardownOncePerHandle ==
    /\ \A c \in Ids : closing[c] <= 1
    /\ \A c \in InFlight :
          /\ (c.pend # {}) => CopiesIn(c, inflight) = 1
          /\ \A d \in InFlight : (d # c) => c.pend \cap d.pend = {}

\* C35: when a connect attempt fails after it has created a driver client (the
\* probe fails, or MongoDB's database name cannot be determined), that client
\* is closed by the time the rejection is delivered to a caller: no open
\* driver client exists that the instance does not reference.
C35_FailedAttemptClosesClient ==
    \A a \in 1..Len(attempts) :
        (attempts[a].state = "rejected" /\ attempts[a].got.rejected > 0)
            => a \notin open

\* C36: state is unchanged on a teardown error: when the disconnect of a
\* handle fails inside unsubscribe() or close() on Redpanda, or closeMongoDB
\* fails inside close() on MongoDB, the call rejects and the fields of that
\* handle (handle, memoized promise, and for the consumer consumer_running
\* and consumer_group_id; on MongoDB client, db and init_promise) keep their
\* values, so that a later close() / unsubscribe() finds the handle set.
C36_TeardownErrorKeepsState ==
    [][/\ ( /\ config.kind = "mongo"
            /\ last'.op = "close" /\ last'.result = "rejected" )
          => UNCHANGED <<client, db, init_promise>>
       /\ \A c \in InFlight : \A k \in c.pend :
            ( /\ config.kind = "redpanda"
              /\ last'.op \in {"unsubscribe", "close", "task"}
              /\ last'.arg = k.role /\ last'.result = "rejected"
              /\ CopiesIn(c, inflight') < CopiesIn(c, inflight) )
            => /\ handle'[k.role] = handle[k.role]
               /\ promise'[k.role] = promise[k.role]
               /\ (k.role = "consumer") =>
                     UNCHANGED <<consumer_running, consumer_group_id>>
               /\ (last'.op = "task") => c.pc = "rejected"
      ]_vars

\* the disconnect of the consumer failed inside unsubscribe(): the call
\* rejected and the consumer is still set and bound to its group
C36_Witness ==
    /\ last = Step("unsubscribe", "consumer", "rejected", {})
    /\ consumer # 0
    /\ consumer_promise = consumer
    /\ consumer_group_id # "none"

\* ------------------------------------------------------------- termination
\* The calls that wait: connect() and close() on Redis / SQL / MongoDB, and
\* connect(), subscribe(), unsubscribe() and close() on Redpanda.

LcLiveNext ==
    \/ ConnectJoin
    \/ \E f \in {"ok", "throw"} : ConnectStart(f)
    \/ \E a \in Ids, ok \in BOOLEAN : ProbeSettle(a, ok)
    \/ \E f \in {"ok", "throw"} : MongoConnectStart(f)
    \/ \E a \in Ids, ok \in BOOLEAN : MongoStep(a, ok)
    \/ \E a \in Ids : CallerSettle(a)
    \/ Close
    \/ MongoCloseStart
    \/ \E c \in Ids, ok \in BOOLEAN : MongoCloseSettle(c, ok)

RpLiveNext ==
    \/ \E f \in {"ok", "throw"} : AdminCall("connect", f)
    \/ \E g \in Groups, f \in {"ok", "throw"} : Subscribe(g, 1, f)
    \/ \E r \in Roles, h \in SubIds, ok \in BOOLEAN : SubConnectSettle(r, h, ok)
    \/ \E c \in InFlight : Resume(c)
    \/ \E c \in InFlight, ok \in BOOLEAN : OpSettle(c, ok)
    \/ Unsubscribe
    \/ RpClose
    \/ \E c \in InFlight, k \in Tasks, ok \in BOOLEAN : DisconnectSettle(c, k, ok)

LiveNext ==
    \/ config.kind \in Kinds /\ LcLiveNext
    \/ config.kind = "redpanda" /\ RpLiveNext

\* the Redpanda operations whose calls suspend
WaitingOps == {"connect", "subscribe", "unsubscribe", "close"}

\* a continuation of a suspended call of operation o runs
ProgressOf(o) ==
    \E c \in InFlight :
        /\ c.op = o
        /\ \/ Resume(c)
           \/ \E ok \in BOOLEAN : OpSettle(c, ok)
           \/ \E k \in Tasks, ok \in BOOLEAN : DisconnectSettle(c, k, ok)

\* a call of operation o returns to its caller
CallEnds(o) ==
    /\ \E c \in InFlight : c.op = o /\ CopiesIn(c, inflight') < CopiesIn(c, inflight)
    /\ BagCardinality(inflight') < BagCardinality(inflight)

\* every awaited driver call eventually settles, and the continuation of a
\* settled promise is eventually run by the event loop
LiveFair ==
    /\ \A a \in Ids :
          /\ WF_vars(\E ok \in BOOLEAN : ProbeSettle(a, ok))
          /\ WF_vars(\E ok \in BOOLEAN : MongoStep(a, ok))
          /\ WF_vars(CallerSettle(a))
          /\ WF_vars(\E ok \in BOOLEAN : MongoCloseSettle(a, ok))
    /\ \A r \in Roles, h \in SubIds :
          WF_vars(\E ok \in BOOLEAN : SubConnectSettle(r, h, ok))
    /\ \A o \in WaitingOps : WF_vars(ProgressOf(o))

SpecLive == AllInit /\ [][LiveNext]_vars /\ LiveFair

\* C37: under fairness, every driver call settling eventually, every
\* connect(), subscribe(), unsubscribe() and close() call eventually resolves
\* or rejects: no caller waits forever on a memoized attempt, callers that
\* joined an attempt that later fails included.  For each attempt, client and
\* operation: either no call is waiting infinitely often, or waiting calls
\* are answered infinitely often.
C37_EveryCallSettles ==
    /\ \A a \in Ids :
          \/ []<>(a \notin Waiting)
          \/ []<><<CallerSettle(a)>>_vars
    /\ \A c \in Ids :
          \/ []<>(closing[c] = 0)
          \/ []<><<\E ok \in BOOLEAN : MongoCloseSettle(c, ok)>>_vars
    /\ \A o \in WaitingOps :
          \/ []<>(\A c \in InFlight : c.op # o)
          \/ []<><<CallEnds(o)>>_vars

\* two connect() calls awaited the same admin attempt, the attempt failed, one
\* call has been rejected and the other is about to be
C37_Witness ==
    /\ last = Step("connect", "none", "rejected", {})
    /\ Len(subs["admin"]) = 1
    /\ subs["admin"][1].state = "rejected"
    /\ \E c \in InFlight : c.op = "connect" /\ c.pc = "await_handle" /\ c.p = 1

====
